---- MODULE Spec2Model ----
(***************************************************************************)
(* A model of apk_instrumenter.py (class ApkInstrumenter): the pipeline    *)
(* run_instrumentation -> check_requirements, parse_android_apk,           *)
(* instrument_apk and the ten stages instrument_apk calls, with the        *)
(* archive rewrite of repackage_apk and the XML rewrite of patch_manifest  *)
(* modelled on their data.                                                 *)
(*                                                                         *)
(* The environment of one run (which bundled files and executables exist,  *)
(* which I/O operation or external tool fails, what the external tools dx  *)
(* and apktool produce) is fixed in the initial state and never changes.   *)
(***************************************************************************)
EXTENDS Naturals, Sequences, FiniteSets, TLC

VARIABLES
    present,    \* the bundled files and executables that exist on this machine
    fault,      \* the operation the environment makes fail in this run ("none": no failure)
    dxOut,      \* the files the external tool dx writes to the dex directory
    decoded,    \* the AndroidManifest.xml the external tool apktool decodes
    apk,        \* the file at self.apk_path
    workDir,    \* whether tempfile.mkdtemp() has created the working directory
    target,     \* the file at target_apk_path (the working copy)
    jar,        \* the file at classes_jar_path
    jacocoDir,  \* whether instrumented_jacoco_path has been produced
    dexDir,     \* the directory instrumented_dex_path
    manifest,   \* the file at apktool_manifest_path
    scratch,    \* the file at "<target_apk_path>.copy"
    buffer,     \* the entries written so far to the in-memory archive of repackage_apk
    outApk,     \* the file <output_apks>/<basename of apk_path>
    outJar,     \* the file <output_apks>/<name>.jar
    pc,         \* the position of the run
    started,    \* the stages started so far, in order
    completed,  \* the stages that returned normally, in order
    failedAt    \* the stage whose exception ended the run ("none": no exception)

env == <<present, fault, dxOut, decoded, apk>>
files == <<workDir, target, jar, jacocoDir, dexDir, manifest, scratch, buffer>>
outputs == <<outApk, outJar>>
control == <<pc, started, completed, failedAt>>
vars == <<present, fault, dxOut, decoded, apk, workDir, target, jar, jacocoDir,
          dexDir, manifest, scratch, buffer, outApk, outJar, pc, started,
          completed, failedAt>>

----------------------------------------------------------------------------
(* Bounds of the model *)

\* the longest source archive enumerated (entries)
MaxEntries == 2
\* the most files dx leaves in the dex directory
MaxDexFiles == 2
\* the most children the application element of an enumerated manifest has
MaxAppKids == 2

----------------------------------------------------------------------------
(* Strings *)

\* str.startswith
StartsWith(s, p) == Len(s) >= Len(p) /\ SubSeq(s, 1, Len(p)) = p

\* str.endswith
EndsWith(s, p) == Len(s) >= Len(p) /\ SubSeq(s, Len(s) - Len(p) + 1, Len(s)) = p

----------------------------------------------------------------------------
(* Files *)

\* no file at the path
NoFile == [kind |-> "absent", entries |-> <<>>, marks |-> {}]

\* a file opened for writing whose content was not (completely) written
Truncated == [kind |-> "partial", entries |-> <<>>, marks |-> {}]

\* a file that is not a zip container
NotZip == [kind |-> "notzip", entries |-> <<>>, marks |-> {}]

\* a complete zip container with these entries, in central-directory order
Zip(es) == [kind |-> "zip", entries |-> es, marks |-> {}]

\* the class archive dex2jar writes
ClassesJar == [kind |-> "jar", entries |-> <<>>, marks |-> {"dex2jar"}]

\* os.path.isfile
IsFile(f) == f.kind # "absent"

\* the file after an external tool rewrote it in place
Marked(f, m) == [f EXCEPT !.marks = @ \cup {m}]

\* the states an external tool that failed may leave its output file in
AfterFailedWrite(f) == {f, Truncated}

----------------------------------------------------------------------------
(* The fixed order of the stages *)

StageOrder ==
    << "check_requirements", "parse_android_apk", "run_dex2jar", "instrument_jar",
       "convert_to_dalvik", "repackage_apk", "apktool_decode", "patch_manifest",
       "apktool_build", "align_apk", "sign_apk", "copy_outputs" >>

Stages == {StageOrder[i] : i \in DOMAIN StageOrder}

\* what check_requirements looks for, and the bundled files the stages use
Executables == {"java", "dex2jar", "dx", "zipalign", "apksigner", "apktool"}
BundledFiles == {"receiver.jar", "jacocoagent.jar", "jacococli.jar",
                 "jacoco-agent.properties", "debug.keystore"}
Requirements == Executables \cup BundledFiles

\* the operations of a run that can fail for a reason the run does not control
FaultPoints ==
    { "none", "mkdtemp", "copy_in", "run_dex2jar", "instrument_jar",
      "convert_to_dalvik", "rp_read", "rp_dex_read", "rp_props_read",
      "rp_open_w", "rp_write", "apktool_decode", "manifest_write",
      "apktool_build", "al_copy", "zipalign", "sign_apk", "co_apk", "co_jar" }

----------------------------------------------------------------------------
(* repackage_apk: the archive rewrite *)

\* the path of the entry repackage_apk adds last
PropertiesEntry == "jacoco-agent.properties"

\* the content of templates/jacoco-agent.properties
PropertiesData == "template"

\* the bug of matching the jar manifest only
IsSignatureExact(path) == path = "META-INF/MANIFEST.MF"

\* entry.filename.startswith("META-INF/")
IsSignature(path) == StartsWith(path, "META-INF/")

\* the bug of matching the first dex file only
IsDexExact(path) == path = "classes.dex"

\* entry.filename.startswith("classes") and entry.filename.endswith(".dex")
IsDex(path) == StartsWith(path, "classes") /\ EndsWith(path, ".dex")

\* the tag the if / elif / else of the loop gives an entry
Classify(path) ==
    IF IsSignature(path) THEN "signature-metadata"
    ELSE IF IsDex(path) THEN "primary-bytecode"
    ELSE "ordinary"

\* ZipFile.read(name): getinfo(name) looks the name up in NameToInfo, where a
\* later entry of the central directory replaces an earlier one of the same name
ReadByName(es, name) ==
    LET idx == {i \in DOMAIN es : es[i].path = name}
        last == CHOOSE i \in idx : \A j \in idx : j <= i
    IN  es[last].data

\* unsigned_apk_zip_buffer.writestr(entry, data) with the source's ZipInfo:
\* appends an entry (a name already in the archive is only warned about)
WriteStrInfo(out, e, data) == Append(out, [path |-> e.path, data |-> data])

\* unsigned_apk_zip_buffer.writestr(name, data): appends an entry
WriteStr(out, name, data) == Append(out, [path |-> name, data |-> data])

\* the for loop over current_apk.infolist(), from entry i on
RECURSIVE CopyEntries(_, _, _)
CopyEntries(es, i, out) ==
    IF i > Len(es) THEN out
    ELSE IF Classify(es[i].path) = "signature-metadata" THEN CopyEntries(es, i + 1, out)
    ELSE IF Classify(es[i].path) = "primary-bytecode" THEN CopyEntries(es, i + 1, out)
    ELSE CopyEntries(es, i + 1, WriteStrInfo(out, es[i], ReadByName(es, es[i].path)))

\* the orders os.listdir may return the files of the dex directory in
Listings(fs) ==
    {o \in [1..Cardinality(fs) -> fs] : \A i, j \in DOMAIN o : i # j => o[i] # o[j]}

\* the bug of skipping the first file of the listing
AddDexFilesSkipFirst(out, listing, i) ==
    LET RECURSIVE Go(_, _)
        Go(o, k) == IF k > Len(listing) THEN o
                    ELSE Go(WriteStr(o, listing[k][1], listing[k][2]), k + 1)
    IN  Go(out, i + 1)

\* the for loop over os.listdir(instrumented_dex_path), from file i on
RECURSIVE AddDexFiles(_, _, _)
AddDexFiles(out, listing, i) ==
    IF i > Len(listing) THEN out
    ELSE AddDexFiles(WriteStr(out, listing[i][1], listing[i][2]), listing, i + 1)

----------------------------------------------------------------------------
(* patch_manifest: the XML rewrite *)

(* An element is [tag, attrs, kids]; an attribute is <<ns, name, value>>.  In *)
(* a document (the text of the file) ns is the prefix written before the     *)
(* colon ("" for none); in a parsed tree it is the namespace URI ("" for     *)
(* none), as ElementTree keeps "{uri}name".  A document is [decl, root]:     *)
(* decl says whether the root declares xmlns:android="<AndroidURI>".         *)

AndroidURI == "http://schemas.android.com/apk/res/android"

Elem(tag, attrs, kids) == [tag |-> tag, attrs |-> attrs, kids |-> kids]

\* the file states of the manifest path
NoManifest == [kind |-> "absent", decl |-> FALSE, root |-> Elem("", {}, <<>>)]
NotXml == [kind |-> "notxml", decl |-> FALSE, root |-> Elem("", {}, <<>>)]
TruncatedXml == [kind |-> "partial", decl |-> FALSE, root |-> Elem("", {}, <<>>)]
Xml(decl, root) == [kind |-> "xml", decl |-> decl, root |-> root]

\* whether an element of the document, or one below it, writes a prefix
RECURSIVE UsesPrefix(_)
UsesPrefix(e) ==
    \/ \E a \in e.attrs : a[1] # ""
    \/ \E i \in DOMAIN e.kids : UsesPrefix(e.kids[i])

\* ET.parse succeeds: the text is XML and every prefix written is declared
\* (expat: "unbound prefix" otherwise)
Parses(doc) == doc.kind = "xml" /\ (doc.decl \/ ~UsesPrefix(doc.root))

\* ET.parse of an element: a prefixed attribute name becomes "{uri}name"
RECURSIVE ParseElem(_)
ParseElem(e) ==
    Elem(e.tag,
         {<<IF a[1] = "android" THEN AndroidURI ELSE "", a[2], a[3]>> : a \in e.attrs},
         [i \in DOMAIN e.kids |-> ParseElem(e.kids[i])])

\* the bug of taking the last child of the root when none is an application
FindApplicationOrLast(root) ==
    LET idx == {i \in DOMAIN root.kids : root.kids[i].tag = "application"}
    IN  IF idx = {} THEN Len(root.kids) ELSE CHOOSE i \in idx : \A j \in idx : i <= j

\* manifest.getroot().find('./application'): the index of the first child of
\* the root with that tag, 0 for None
FindApplication(root) ==
    LET idx == {i \in DOMAIN root.kids : root.kids[i].tag = "application"}
    IN  IF idx = {} THEN 0 ELSE CHOOSE i \in idx : \A j \in idx : i <= j

\* the subtree lines 369-374 build; the attribute keys are the plain strings
\* 'android:name' and 'android:exported', not "{uri}name"
Receiver ==
    Elem("receiver",
         { <<"", "android:name", "cosmo.receiver.EndCoverageBroadcast">>,
           <<"", "android:exported", "true">> },
         << Elem("intent-filter", {},
                 << Elem("action", {<<"", "android:name", "intent.END_COVERAGE">>}, <<>>) >>) >>)

\* the bug of inserting the new child first
InsertFirst(parent, child) == [parent EXCEPT !.kids = <<child>> \o @]

\* ET.SubElement(parent, tag): the new element is appended to parent's children
SubElement(parent, child) == [parent EXCEPT !.kids = Append(@, child)]

\* the tree after lines 368-374, given the index of application among the
\* root's children
Patch(root, i) == [root EXCEPT !.kids[i] = SubElement(@, Receiver)]

\* whether an element of the tree, or one below it, has a "{AndroidURI}name" key
RECURSIVE UsesURI(_)
UsesURI(e) ==
    \/ \E a \in e.attrs : a[1] = AndroidURI
    \/ \E i \in DOMAIN e.kids : UsesURI(e.kids[i])

\* how ElementTree writes an attribute key: "{AndroidURI}name" with the
\* registered prefix, any other key as it is
WriteAttr(a) ==
    IF a[1] = AndroidURI THEN <<"android", a[2], a[3]>>
    ELSE IF StartsWith(a[2], "android:") THEN <<"android", SubSeq(a[2], 9, Len(a[2])), a[3]>>
    ELSE <<"", a[2], a[3]>>

RECURSIVE WriteElem(_)
WriteElem(e) ==
    Elem(e.tag, {WriteAttr(a) : a \in e.attrs},
         [i \in DOMAIN e.kids |-> WriteElem(e.kids[i])])

\* manifest.write: xmlns:android is declared on the root exactly when some
\* key of the tree is qualified by AndroidURI (ElementTree._namespaces)
Serialize(root) == Xml(UsesURI(root), WriteElem(root))

----------------------------------------------------------------------------
(* The runs examined *)

\* the sequences over S of at most n elements
SeqUpTo(S, n) == UNION {[1..k -> S] : k \in 0..n}

SourcePaths ==
    { "AndroidManifest.xml", "classes.dex", "classes2.dex", "META-INF/CERT.SF",
      "res/layout.xml", "jacoco-agent.properties" }
SourceData == {"d1", "d2"}

\* the source archives enumerated: zip containers may hold a path twice
SourceArchives == SeqUpTo([path : SourcePaths, data : SourceData], MaxEntries)

\* os.listdir returns names without a directory part
DexNames == {"classes.dex", "classes2.dex", "jacoco-agent.properties"}
DexData == {"d2", "d3"}

\* the contents of the dex directory enumerated: file names are unique
DexDirs ==
    { fs \in SUBSET (DexNames \X DexData) :
        /\ Cardinality(fs) <= MaxDexFiles
        /\ \A f, g \in fs : f[1] = g[1] => f = g }

\* the children of application enumerated
AppKids ==
    { Elem("activity", {<<"android", "name", "A">>}, <<>>),
      Elem("service", {<<"", "name", "S">>}, <<>>) }

Applications ==
    { Elem("application", attrs, kids) :
        attrs \in {{}, {<<"android", "label", "L">>}},
        kids \in SeqUpTo(AppKids, MaxAppKids) }

Permission == Elem("uses-permission", {<<"android", "name", "P">>}, <<>>)

\* the decoded manifests enumerated, the ill-formed ones among them
ManifestDocs ==
    { Xml(decl, Elem("manifest", attrs, kids)) :
        decl \in BOOLEAN,
        attrs \in { {<<"", "package", "p">>},
                    {<<"", "package", "p">>, <<"android", "versionCode", "1">>} },
        kids \in {<<>>, <<Permission>>}
                 \cup {<<a>> : a \in Applications}
                 \cup {<<Permission, a>> : a \in Applications}
                 \cup {<<a, Elem("application", {}, <<>>)>> : a \in Applications} }
    \cup {NotXml}

\* the archive, the dex directory and the manifest of the specification's scenarios
ScenarioApk ==
    Zip(<< [path |-> "AndroidManifest.xml", data |-> "d1"],
           [path |-> "classes.dex", data |-> "d1"],
           [path |-> "META-INF/CERT.SF", data |-> "d1"],
           [path |-> "res/layout.xml", data |-> "d1"] >>)
ScenarioDex == {<<"classes.dex", "d3">>, <<"classes2.dex", "d3">>}
ScenarioManifest ==
    Xml(TRUE, Elem("manifest", {<<"", "package", "p">>},
                   <<Elem("application", {}, <<>>)>>))

\* every failure of the environment, on a few inputs
InitPipeline ==
    /\ present \in {Requirements} \cup {Requirements \ {r} : r \in Requirements}
    /\ fault \in FaultPoints
    /\ dxOut = ScenarioDex
    /\ decoded = ScenarioManifest
    /\ apk \in {NoFile, NotZip, Zip(<<[path |-> "res/layout.xml", data |-> "d1"]>>),
                ScenarioApk}

\* every source archive and dex directory; the run ends after repackage_apk
InitArchives ==
    /\ present = Requirements
    /\ fault = "apktool_decode"
    /\ dxOut \in DexDirs
    /\ decoded = ScenarioManifest
    /\ apk \in {Zip(es) : es \in SourceArchives} \cup {ScenarioApk}

\* every manifest; the run ends after patch_manifest
InitManifests ==
    /\ present = Requirements
    /\ fault \in {"manifest_write", "apktool_build"}
    /\ dxOut = ScenarioDex
    /\ decoded \in ManifestDocs
    /\ apk = ScenarioApk

Init ==
    /\ InitPipeline \/ InitArchives \/ InitManifests
    /\ workDir = FALSE
    /\ target = NoFile
    /\ jar = NoFile
    /\ jacocoDir = FALSE
    /\ dexDir = [exists |-> FALSE, files |-> {}]
    /\ manifest = NoManifest
    /\ scratch = NoFile
    /\ buffer = <<>>
    /\ outApk = NoFile
    /\ outJar = NoFile
    /\ pc = "check_requirements"
    /\ started = <<>>
    /\ completed = <<>>
    /\ failedAt = "none"

----------------------------------------------------------------------------
(* Control: how a stage starts, returns and raises *)

\* the stage is called
Start(stage) == started' = Append(started, stage)

\* the stage returns normally and the caller goes on with its next statement
Return(stage, next) ==
    /\ pc' = next
    /\ completed' = Append(completed, stage)
    /\ failedAt' = failedAt

\* the bug of an except clause that logs and does not re-raise: the caller
\* goes on with the statement after the call
Swallow(stage) ==
    LET i == CHOOSE k \in DOMAIN StageOrder : StageOrder[k] = stage
    IN  /\ pc' = IF stage \notin Stages THEN "run_dex2jar"
                 ELSE IF i < Len(StageOrder) THEN StageOrder[i + 1]
                 ELSE "returned"
        /\ completed' = completed
        /\ failedAt' = stage

\* the stage raises: its except clause logs and re-raises, instrument_apk has
\* no handler, and run_instrumentation logs and re-raises to its caller
Raise(stage) ==
    /\ pc' = "raised"
    /\ completed' = completed
    /\ failedAt' = stage

----------------------------------------------------------------------------
(* run_instrumentation: check_requirements, parse_android_apk, instrument_apk *)

\* the bug of leaving one executable (apktool) out of the checks
check_requirements_without_apktool ==
    /\ pc = "check_requirements"
    /\ Start("check_requirements")
    /\ IF "receiver.jar" \in present /\ (Executables \ {"apktool"}) \subseteq present
       THEN Return("check_requirements", "parse_android_apk")
       ELSE Raise("check_requirements")
    /\ UNCHANGED <<env, files, outputs>>

check_requirements ==
    /\ pc = "check_requirements"
    /\ Start("check_requirements")
    /\ IF "receiver.jar" \in present /\ Executables \subseteq present
       THEN Return("check_requirements", "parse_android_apk")
       ELSE Raise("check_requirements")
    /\ UNCHANGED <<env, files, outputs>>

\* the bug of accepting any zip container, with or without a manifest entry
parse_android_apk_any_zip ==
    /\ pc = "parse_android_apk"
    /\ Start("parse_android_apk")
    /\ IF IsFile(apk) /\ apk.kind = "zip"
       THEN Return("parse_android_apk", "instrument_apk")
       ELSE Raise("parse_android_apk")
    /\ UNCHANGED <<env, files, outputs>>

parse_android_apk ==
    /\ pc = "parse_android_apk"
    /\ Start("parse_android_apk")
    /\ IF /\ IsFile(apk)
          /\ apk.kind = "zip"
          /\ \E i \in DOMAIN apk.entries : apk.entries[i].path = "AndroidManifest.xml"
       THEN Return("parse_android_apk", "instrument_apk")
       ELSE Raise("parse_android_apk")
    /\ UNCHANGED <<env, files, outputs>>

\* lines 156-170: the working directory and the working copy
instrument_apk ==
    /\ pc = "instrument_apk"
    /\ IF fault = "mkdtemp"
       THEN /\ Raise("instrument_apk")
            /\ UNCHANGED <<workDir, target>>
       ELSE IF fault = "copy_in"
       THEN /\ Raise("instrument_apk")
            /\ workDir' = TRUE
            /\ target' \in {NoFile, Truncated}
       ELSE /\ pc' = "run_dex2jar"
            /\ workDir' = TRUE
            /\ target' = apk
            /\ UNCHANGED <<completed, failedAt>>
    /\ UNCHANGED <<env, jar, jacocoDir, dexDir, manifest, scratch, buffer, outputs, started>>

run_dex2jar ==
    /\ pc = "run_dex2jar"
    /\ Start("run_dex2jar")
    /\ IF fault = "run_dex2jar"
       THEN /\ Raise("run_dex2jar")
            /\ jar' \in {NoFile, Truncated}
       ELSE /\ Return("run_dex2jar", "instrument_jar")
            /\ jar' = ClassesJar
    /\ UNCHANGED <<env, workDir, target, jacocoDir, dexDir, manifest, scratch, buffer, outputs>>

\* the bug of instrumenting the class archive in place
instrument_jar_in_place ==
    /\ pc = "instrument_jar"
    /\ Start("instrument_jar")
    /\ IF fault = "instrument_jar" \/ "jacococli.jar" \notin present
       THEN /\ Raise("instrument_jar")
            /\ UNCHANGED <<jacocoDir, jar>>
       ELSE /\ Return("instrument_jar", "convert_to_dalvik")
            /\ jacocoDir' = TRUE
            /\ jar' = Marked(jar, "instrumented")
    /\ UNCHANGED <<env, workDir, target, dexDir, manifest, scratch, buffer, outputs>>

instrument_jar ==
    /\ pc = "instrument_jar"
    /\ Start("instrument_jar")
    /\ IF fault = "instrument_jar" \/ "jacococli.jar" \notin present
       THEN /\ Raise("instrument_jar")
            /\ UNCHANGED jacocoDir
       ELSE /\ Return("instrument_jar", "convert_to_dalvik")
            /\ jacocoDir' = TRUE
    /\ UNCHANGED <<env, workDir, target, jar, dexDir, manifest, scratch, buffer, outputs>>

convert_to_dalvik ==
    /\ pc = "convert_to_dalvik"
    /\ Start("convert_to_dalvik")
    /\ IF fault = "convert_to_dalvik" \/ "jacocoagent.jar" \notin present
       THEN /\ Raise("convert_to_dalvik")
            /\ dexDir' = [exists |-> TRUE, files |-> {}]
       ELSE /\ Return("convert_to_dalvik", "repackage_apk")
            /\ dexDir' = [exists |-> TRUE, files |-> dxOut]
    /\ UNCHANGED <<env, workDir, target, jar, jacocoDir, manifest, scratch, buffer, outputs>>

----------------------------------------------------------------------------
(* repackage_apk, statement by statement *)

\* the bug of opening the output for writing before the archive is built
rp_copy_truncates ==
    /\ pc = "repackage_apk"
    /\ Start("repackage_apk")
    /\ IF fault = "rp_read" \/ target.kind # "zip"
       THEN /\ Raise("repackage_apk")
            /\ UNCHANGED <<buffer, target>>
       ELSE /\ pc' = "rp_dex"
            /\ buffer' = CopyEntries(target.entries, 1, <<>>)
            /\ target' = Truncated
            /\ UNCHANGED <<completed, failedAt>>
    /\ UNCHANGED <<env, workDir, jar, jacocoDir, dexDir, manifest, scratch, outputs>>

\* lines 284-308: the source archive is opened and its entries are copied
rp_copy ==
    /\ pc = "repackage_apk"
    /\ Start("repackage_apk")
    /\ IF fault = "rp_read" \/ target.kind # "zip"
       THEN /\ Raise("repackage_apk")
            /\ UNCHANGED buffer
       ELSE /\ pc' = "rp_dex"
            /\ buffer' = CopyEntries(target.entries, 1, <<>>)
            /\ UNCHANGED <<completed, failedAt>>
    /\ UNCHANGED <<env, workDir, target, jar, jacocoDir, dexDir, manifest, scratch, outputs>>

\* lines 310-317: the files of the dex directory are added, in listing order
rp_dex ==
    /\ pc = "rp_dex"
    /\ IF fault = "rp_dex_read" \/ ~dexDir.exists
       THEN /\ Raise("repackage_apk")
            /\ UNCHANGED buffer
       ELSE /\ pc' = "rp_props"
            /\ \E listing \in Listings(dexDir.files) :
                   buffer' = AddDexFiles(buffer, listing, 1)
            /\ UNCHANGED <<completed, failedAt>>
    /\ UNCHANGED <<env, workDir, target, jar, jacocoDir, dexDir, manifest, scratch, outputs, started>>

\* lines 319-323: the properties template is added and the archive is closed
rp_props ==
    /\ pc = "rp_props"
    /\ IF fault = "rp_props_read" \/ "jacoco-agent.properties" \notin present
       THEN /\ Raise("repackage_apk")
            /\ UNCHANGED buffer
       ELSE /\ pc' = "rp_open_w"
            /\ buffer' = WriteStr(buffer, PropertiesEntry, PropertiesData)
            /\ UNCHANGED <<completed, failedAt>>
    /\ UNCHANGED <<env, workDir, target, jar, jacocoDir, dexDir, manifest, scratch, outputs, started>>

\* line 326: open(target_apk_path, "wb") empties the file
rp_open_w ==
    /\ pc = "rp_open_w"
    /\ IF fault = "rp_open_w"
       THEN /\ Raise("repackage_apk")
            /\ UNCHANGED target
       ELSE /\ pc' = "rp_write"
            /\ target' = Truncated
            /\ UNCHANGED <<completed, failedAt>>
    /\ UNCHANGED <<env, workDir, jar, jacocoDir, dexDir, manifest, scratch, buffer, outputs, started>>

\* the bug of writing the new archive over the input package
rp_write_to_input ==
    /\ pc = "rp_write"
    /\ IF fault = "rp_write"
       THEN /\ Raise("repackage_apk")
            /\ UNCHANGED apk
       ELSE /\ Return("repackage_apk", "apktool_decode")
            /\ apk' = Zip(buffer)
    /\ UNCHANGED <<present, fault, dxOut, decoded, files, outputs, started>>

\* line 327: the bytes of the in-memory archive are written
rp_write ==
    /\ pc = "rp_write"
    /\ IF fault = "rp_write"
       THEN /\ Raise("repackage_apk")
            /\ UNCHANGED target
       ELSE /\ Return("repackage_apk", "apktool_decode")
            /\ target' = Zip(buffer)
    /\ UNCHANGED <<env, workDir, jar, jacocoDir, dexDir, manifest, scratch, buffer, outputs, started>>

----------------------------------------------------------------------------
(* apktool_decode, patch_manifest, apktool_build *)

apktool_decode ==
    /\ pc = "apktool_decode"
    /\ Start("apktool_decode")
    /\ IF fault = "apktool_decode"
       THEN /\ Raise("apktool_decode")
            /\ UNCHANGED manifest
       ELSE /\ Return("apktool_decode", "patch_manifest")
            /\ manifest' = decoded
    /\ UNCHANGED <<env, workDir, target, jar, jacocoDir, dexDir, scratch, buffer, outputs>>

patch_manifest ==
    /\ pc = "patch_manifest"
    /\ Start("patch_manifest")
    /\ IF ~Parses(manifest)
       THEN \* ET.parse raises
            /\ Raise("patch_manifest")
            /\ UNCHANGED manifest
       ELSE LET root == ParseElem(manifest.root)
                i    == FindApplication(root)
            IN  IF i = 0
                THEN \* ET.SubElement(None, 'receiver') raises TypeError
                     /\ Raise("patch_manifest")
                     /\ UNCHANGED manifest
                ELSE IF fault = "manifest_write"
                THEN /\ Raise("patch_manifest")
                     /\ manifest' = TruncatedXml
                ELSE /\ Return("patch_manifest", "apktool_build")
                     /\ manifest' = Serialize(Patch(root, i))
    /\ UNCHANGED <<env, workDir, target, jar, jacocoDir, dexDir, scratch, buffer, outputs>>

apktool_build ==
    /\ pc = "apktool_build"
    /\ Start("apktool_build")
    /\ IF fault = "apktool_build"
       THEN /\ Raise("apktool_build")
            /\ target' \in AfterFailedWrite(target)
       ELSE /\ Return("apktool_build", "align_apk")
            /\ target' = Marked(target, "built")
    /\ UNCHANGED <<env, workDir, jar, jacocoDir, dexDir, manifest, scratch, buffer, outputs>>

----------------------------------------------------------------------------
(* align_apk: try, except, finally *)

\* lines 413-415: the scratch copy is made
al_copy ==
    /\ pc = "align_apk"
    /\ Start("align_apk")
    /\ IF fault = "al_copy"
       THEN /\ pc' = "al_finally"
            /\ failedAt' = "align_apk"
            /\ scratch' \in {NoFile, Truncated}
       ELSE /\ pc' = "al_zipalign"
            /\ failedAt' = failedAt
            /\ scratch' = target
    /\ UNCHANGED <<env, workDir, target, jar, jacocoDir, dexDir, manifest, buffer, outputs, completed>>

\* lines 417-428: zipalign reads the scratch copy and writes the working copy
al_zipalign ==
    /\ pc = "al_zipalign"
    /\ pc' = "al_finally"
    /\ IF fault = "zipalign"
       THEN /\ failedAt' = "align_apk"
            /\ target' \in AfterFailedWrite(target)
       ELSE /\ failedAt' = failedAt
            /\ target' = Marked(scratch, "aligned")
    /\ UNCHANGED <<env, workDir, jar, jacocoDir, dexDir, manifest, scratch, buffer, outputs, started, completed>>

\* the bug of removing the scratch copy at the end of the try body instead
\* of in a finally clause
al_finally_cleans_on_success ==
    /\ pc = "al_finally"
    /\ scratch' = IF failedAt = "none" /\ IsFile(scratch) THEN NoFile ELSE scratch
    /\ IF failedAt = "none"
       THEN Return("align_apk", "sign_apk")
       ELSE Raise("align_apk")
    /\ UNCHANGED <<env, workDir, target, jar, jacocoDir, dexDir, manifest, buffer, outputs, started>>

\* the bug of a finally clause that returns, which discards the exception
al_finally_returns ==
    /\ pc = "al_finally"
    /\ scratch' = IF IsFile(scratch) THEN NoFile ELSE scratch
    /\ pc' = "sign_apk"
    /\ completed' = Append(completed, "align_apk")
    /\ failedAt' = failedAt
    /\ UNCHANGED <<env, workDir, target, jar, jacocoDir, dexDir, manifest, buffer, outputs, started>>

\* lines 440-443: the finally clause, then the return or the re-raise
al_finally ==
    /\ pc = "al_finally"
    /\ scratch' = IF IsFile(scratch) THEN NoFile ELSE scratch
    /\ IF failedAt = "none"
       THEN Return("align_apk", "sign_apk")
       ELSE Raise("align_apk")
    /\ UNCHANGED <<env, workDir, target, jar, jacocoDir, dexDir, manifest, buffer, outputs, started>>

----------------------------------------------------------------------------
(* sign_apk, copy_outputs *)

sign_apk ==
    /\ pc = "sign_apk"
    /\ Start("sign_apk")
    /\ IF fault = "sign_apk" \/ "debug.keystore" \notin present
       THEN /\ Raise("sign_apk")
            /\ target' \in AfterFailedWrite(target)
       ELSE /\ Return("sign_apk", "copy_outputs")
            /\ target' = Marked(target, "signed")
    /\ UNCHANGED <<env, workDir, jar, jacocoDir, dexDir, manifest, scratch, buffer, outputs>>

\* line 482: shutil.copy2(target_apk_path, output_dir)
co_apk ==
    /\ pc = "copy_outputs"
    /\ Start("copy_outputs")
    /\ IF fault = "co_apk"
       THEN /\ Raise("copy_outputs")
            /\ outApk' \in {NoFile, Truncated}
       ELSE /\ pc' = "co_jar"
            /\ outApk' = target
            /\ UNCHANGED <<completed, failedAt>>
    /\ UNCHANGED <<env, files, outJar>>

\* the bug of a copy whose failure is logged and not raised
co_jar_logs_failure ==
    /\ pc = "co_jar"
    /\ IF fault = "co_jar"
       THEN /\ pc' = "returned"
            /\ failedAt' = "copy_outputs"
            /\ outJar' \in {NoFile, Truncated}
            /\ UNCHANGED completed
       ELSE /\ Return("copy_outputs", "returned")
            /\ outJar' = jar
    /\ UNCHANGED <<env, files, outApk, started>>

\* line 483: shutil.copy2(classes_jar_path, output_dir)
co_jar ==
    /\ pc = "co_jar"
    /\ IF fault = "co_jar"
       THEN /\ Raise("copy_outputs")
            /\ outJar' \in {NoFile, Truncated}
       ELSE /\ Return("copy_outputs", "returned")
            /\ outJar' = jar
    /\ UNCHANGED <<env, files, outApk, started>>

----------------------------------------------------------------------------

Next ==
    \/ check_requirements
    \/ parse_android_apk
    \/ instrument_apk
    \/ run_dex2jar
    \/ instrument_jar
    \/ convert_to_dalvik
    \/ rp_copy
    \/ rp_dex
    \/ rp_props
    \/ rp_open_w
    \/ rp_write
    \/ apktool_decode
    \/ patch_manifest
    \/ apktool_build
    \/ al_copy
    \/ al_zipalign
    \/ al_finally
    \/ sign_apk
    \/ co_apk
    \/ co_jar

Spec == Init /\ [][Next]_vars

----------------------------------------------------------------------------
(* Properties of the pipeline *)

Range(s) == {s[i] : i \in DOMAIN s}

\* stages 2 through 10 of the specification's numbering
Stages2To10 ==
    { "run_dex2jar", "instrument_jar", "convert_to_dalvik", "repackage_apk",
      "apktool_decode", "patch_manifest", "apktool_build", "align_apk", "sign_apk" }

\* C1: when one of the stages run_dex2jar .. sign_apk has failed, copy_outputs
\* has not been started and the output directory holds no file of the run.
C1_NoOutputAfterStageFailure ==
    failedAt \in Stages2To10 =>
        /\ "copy_outputs" \notin Range(started)
        /\ outApk = NoFile
        /\ outJar = NoFile

\* the last of the stages 2 through 10 has failed and the run has ended
C1_Witness == failedAt = "sign_apk" /\ pc = "raised"

\* C2: the stages started are a prefix of the fixed order, a stage is started
\* only when every stage before it has returned normally, and once a stage has
\* failed no stage is started.
C2_StagesArePrefix ==
    /\ [](/\ \E k \in 0..Len(StageOrder) : started = SubSeq(StageOrder, 1, k)
          /\ \E k \in 0..Len(started) : completed = SubSeq(started, 1, k)
          /\ Len(started) <= Len(completed) + 1)
    /\ [][failedAt # "none" => started' = started]_vars

\* a run that started every stage and returned
C2_WitnessFullRun == pc = "returned" /\ started = StageOrder

----------------------------------------------------------------------------
(* Properties of repackage_apk *)

\* repackage_apk has just returned normally: the working copy is its output,
\* the input file still equals the source archive it read, and the dex
\* directory is the replacement directory
AfterRepackage == pc = "apktool_decode"

\* the patterns as the claims word them
OrdinaryPath(path) ==
    /\ ~StartsWith(path, "META-INF/")
    /\ ~(StartsWith(path, "classes") /\ EndsWith(path, ".dex"))

\* the archive holds an entry with this path and this content
Holds(es, path, data) == \E j \in DOMAIN es : es[j].path = path /\ es[j].data = data

\* the number of entries of the archive with this path
Count(es, path) == Cardinality({j \in DOMAIN es : es[j].path = path})

\* no path occurs twice in the archive
UniquePaths(es) == \A i, j \in DOMAIN es : es[i].path = es[j].path => i = j

\* C3: after a successful repackage_apk every ordinary entry of the source
\* archive has an entry of the same path and the same content in the output.
C3_OrdinaryEntriesPreserved ==
    AfterRepackage =>
        \A i \in DOMAIN apk.entries :
            OrdinaryPath(apk.entries[i].path) =>
                Holds(target.entries, apk.entries[i].path, apk.entries[i].data)


\* C4: after a successful repackage_apk the output has no entry under
\* META-INF/, and every classes*.dex entry of the output is a file of the
\* replacement directory, with that file's content.
C4_SignatureAndDexExcluded ==
    AfterRepackage =>
        \A j \in DOMAIN target.entries :
            LET e == target.entries[j]
            IN  /\ ~StartsWith(e.path, "META-INF/")
                /\ (StartsWith(e.path, "classes") /\ EndsWith(e.path, ".dex"))
                       => <<e.path, e.data>> \in dexDir.files

\* the source held a signature entry and a dex entry that the replacement
\* directory does not hold with the same content
C4_Witness ==
    /\ AfterRepackage
    /\ \E i \in DOMAIN apk.entries : StartsWith(apk.entries[i].path, "META-INF/")
    /\ \E i \in DOMAIN apk.entries :
           /\ StartsWith(apk.entries[i].path, "classes")
           /\ EndsWith(apk.entries[i].path, ".dex")
           /\ <<apk.entries[i].path, apk.entries[i].data>> \notin dexDir.files

\* C5: after a successful repackage_apk every file of the replacement
\* directory is an entry of the output, named by its file name, with the
\* file's content.
C5_ReplacementFilesPresent ==
    AfterRepackage =>
        \A f \in dexDir.files : Holds(target.entries, f[1], f[2])

\* the replacement directory held two files
C5_Witness == AfterRepackage /\ Cardinality(dexDir.files) = 2

\* C6: after a successful repackage_apk the output holds the entry
\* jacoco-agent.properties exactly once.
C6_PropertiesExactlyOnce ==
    AfterRepackage => Count(target.entries, "jacoco-agent.properties") = 1

\* C7: when the paths of the source archive are unique, the paths of the
\* output of a successful repackage_apk are unique.
C7_OutputPathsUnique ==
    (AfterRepackage /\ UniquePaths(apk.entries)) => UniquePaths(target.entries)

\* C8: once repackage_apk has failed, the file at target_apk_path is the
\* complete original archive or a complete new archive.
C8_NoPartialFileAfterFailure ==
    failedAt = "repackage_apk" => (target = apk \/ target.kind = "zip")

----------------------------------------------------------------------------
(* Properties of copy_outputs *)

\* the run has ended, by returning or by raising
Terminated == pc \in {"returned", "raised"}

\* C9: when the run has ended, the output directory holds both output files
\* of the run, complete, or neither of them.
C9_OutputsAllOrNothing ==
    Terminated =>
        \/ outApk = NoFile /\ outJar = NoFile
        \/ outApk.kind = "zip" /\ outJar.kind = "jar"

----------------------------------------------------------------------------
(* Properties of patch_manifest *)

\* patch_manifest has just returned normally: the manifest file is its
\* output and the document apktool decoded was its input
AfterPatch == pc = "apktool_build"

\* the receiver declaration as the written document shows it
ReceiverText ==
    [ tag |-> "receiver",
      attrs |-> { <<"android", "name", "cosmo.receiver.EndCoverageBroadcast">>,
                  <<"android", "exported", "true">> },
      kids |-> << [ tag |-> "intent-filter",
                    attrs |-> {},
                    kids |-> << [ tag |-> "action",
                                  attrs |-> {<<"android", "name", "intent.END_COVERAGE">>},
                                  kids |-> <<>> ] >> ] >> ]

\* the index of the first application child of a document's root
FirstApplication(doc) ==
    CHOOSE i \in DOMAIN doc.root.kids :
        /\ doc.root.kids[i].tag = "application"
        /\ \A j \in 1..(i - 1) : doc.root.kids[j].tag # "application"

\* C10: after a successful patch_manifest the application element has its n
\* original children, unchanged and in their order, followed by one new last
\* child: the receiver with its two attributes, one intent-filter and one action.
C10_ReceiverAppendedLast ==
    AfterPatch =>
        /\ \E i \in DOMAIN decoded.root.kids : decoded.root.kids[i].tag = "application"
        /\ LET i == FirstApplication(decoded)
           IN  /\ manifest.kind = "xml"
               /\ manifest.root.kids[i].tag = "application"
               /\ manifest.root.kids[i].kids =
                      decoded.root.kids[i].kids \o <<ReceiverText>>

\* application had two children and has three, the receiver last
C10_Witness ==
    /\ AfterPatch
    /\ Len(decoded.root.kids[FirstApplication(decoded)].kids) = 2
    /\ Len(manifest.root.kids[FirstApplication(decoded)].kids) = 3

\* the root of the document has no application child
NoApplication(doc) ==
    \A i \in DOMAIN doc.root.kids : doc.root.kids[i].tag # "application"

\* C11: when the root of the decoded manifest has no application child, a
\* patch_manifest that was started has raised and the manifest file is the
\* document apktool decoded: nothing was written to manifest_path.
C11_NoApplicationFailsUnchanged ==
    ("patch_manifest" \in Range(started) /\ decoded.kind = "xml" /\ NoApplication(decoded))
        => /\ pc = "raised"
           /\ failedAt = "patch_manifest"
           /\ manifest = decoded

\* a well-formed manifest with a child that is no application, and
\* patch_manifest has raised
C11_Witness ==
    /\ failedAt = "patch_manifest"
    /\ decoded.kind = "xml"
    /\ decoded.decl
    /\ Len(decoded.root.kids) = 1
    /\ NoApplication(decoded)

\* C12: when the decoded manifest declares xmlns:android as the Android
\* namespace, the document a successful patch_manifest writes declares it
\* too, so the android: attributes of the new receiver are bound to it.
C12_NamespaceBindingPreserved ==
    (AfterPatch /\ decoded.decl) => manifest.decl

----------------------------------------------------------------------------
(* Properties of align_apk *)

\* align_apk has returned, or has raised to its caller
AlignExited ==
    \/ "align_apk" \in Range(completed)
    \/ failedAt = "align_apk" /\ pc = "raised"

\* C13: once align_apk has returned or raised, there is no file at
\* "<target_apk_path>.copy".
C13_ScratchRemovedOnEveryExit == AlignExited => scratch = NoFile

\* zipalign failed after the scratch copy was made, and align_apk has raised
C13_Witness == fault = "zipalign" /\ failedAt = "align_apk" /\ pc = "raised"

----------------------------------------------------------------------------
(* Properties of check_requirements and parse_android_apk *)

\* the run has not gone past check_requirements: the input was not
\* validated, no working directory exists, no external tool was invoked
NotPastRequirements ==
    /\ started \in {<<>>, <<"check_requirements">>}
    /\ pc \in {"check_requirements", "raised"}
    /\ pc = "raised" => failedAt = "check_requirements"
    /\ ~workDir
    /\ jar = NoFile /\ ~jacocoDir /\ ~dexDir.exists /\ manifest = NoManifest

\* the bundled files the claim names
FixedAssets ==
    {"receiver.jar", "jacocoagent.jar", "jacoco-agent.properties", "debug.keystore"}

\* C14: when a bundled file (receiver.jar, jacocoagent.jar,
\* jacoco-agent.properties, debug.keystore) is absent, the run fails in
\* check_requirements, before the working directory is created and before
\* any external tool is invoked.
C14_MissingAssetFailsAtStartup ==
    ~(FixedAssets \subseteq present) => NotPastRequirements

\* C15: when one of the six executables is not on the search path, the run
\* fails in check_requirements: the input is not validated, no working
\* directory is created, no external tool is invoked and nothing is written
\* to the output directory.
C15_MissingExecutableFailsAtStartup ==
    ~(Executables \subseteq present) =>
        /\ NotPastRequirements
        /\ outApk = NoFile
        /\ outJar = NoFile

\* the last executable checked is missing and check_requirements has raised
C15_Witness ==
    /\ "apktool" \notin present
    /\ (Executables \ {"apktool"}) \subseteq present
    /\ failedAt = "check_requirements"
    /\ pc = "raised"

\* the input is no existing file, no zip container, or a zip container
\* without an entry named AndroidManifest.xml
InvalidInput ==
    \/ apk.kind = "absent"
    \/ apk.kind # "zip"
    \/ \A i \in DOMAIN apk.entries : apk.entries[i].path # "AndroidManifest.xml"

\* C16: when the input is invalid, a run that passed check_requirements
\* fails in parse_android_apk; no working directory is created, no external
\* tool is invoked and nothing is written to the output directory.
C16_InvalidInputFailsInParse ==
    InvalidInput =>
        /\ Len(started) <= 2
        /\ pc \in {"check_requirements", "parse_android_apk", "raised"}
        /\ (pc = "raised" /\ "check_requirements" \in Range(completed))
               => failedAt = "parse_android_apk"
        /\ ~workDir
        /\ target = NoFile /\ jar = NoFile /\ ~jacocoDir /\ ~dexDir.exists
        /\ manifest = NoManifest
        /\ outApk = NoFile
        /\ outJar = NoFile

\* a zip container without a manifest entry was rejected by parse_android_apk
C16_Witness ==
    /\ apk.kind = "zip"
    /\ Len(apk.entries) > 0
    /\ failedAt = "parse_android_apk"
    /\ pc = "raised"

----------------------------------------------------------------------------
(* Properties of the outputs of a successful run *)

\* C17: when the run has returned, the output directory holds the two files
\* of the run: under the input's base name the working copy as it is after
\* signing, and under "<name>.jar" the class archive as dex2jar wrote it.
C17_TwoOutputsOfSuccessfulRun ==
    pc = "returned" =>
        /\ outApk.kind = "zip"
        /\ outApk = target
        /\ {"built", "aligned", "signed"} \subseteq outApk.marks
        /\ outJar.kind = "jar"
        /\ outJar.marks = {"dex2jar"}
        /\ outJar = jar

\* a run in which every stage succeeded
C17_Witness == pc = "returned" /\ completed = StageOrder /\ failedAt = "none"

----------------------------------------------------------------------------
(* Properties of the classification of source entries *)

\* the tags whose pattern a path matches: a path under "META-INF/" matches
\* signature-metadata, a path "classes...dex" matches primary-bytecode, and a
\* path matching neither pattern is ordinary
TagsOf(path) ==
    {t \in {"signature-metadata", "primary-bytecode", "ordinary"} :
        \/ t = "signature-metadata" /\ StartsWith(path, "META-INF/")
        \/ t = "primary-bytecode" /\ StartsWith(path, "classes") /\ EndsWith(path, ".dex")
        \/ t = "ordinary" /\ ~StartsWith(path, "META-INF/")
                          /\ ~(StartsWith(path, "classes") /\ EndsWith(path, ".dex"))}

\* the paths of the entries of es tagged ordinary, in order
OrdinaryPathsOf(es) ==
    LET ord == SelectSeq(es, LAMBDA e : TagsOf(e.path) = {"ordinary"})
    IN  [k \in DOMAIN ord |-> ord[k].path]

\* C18: every entry of the source archive matches exactly one of the three
\* tags, which is the tag the loop gives it, and when the loop over the source
\* has ended the new archive holds one entry for each ordinary source entry,
\* in order, and none for any other: each entry is dropped or copied once.
C18_ClassificationIsPartition ==
    pc = "rp_dex" =>
        /\ \A i \in DOMAIN apk.entries :
              /\ Cardinality(TagsOf(apk.entries[i].path)) = 1
              /\ Classify(apk.entries[i].path) \in TagsOf(apk.entries[i].path)
        /\ [k \in DOMAIN buffer |-> buffer[k].path] = OrdinaryPathsOf(apk.entries)

\* the loop has ended on a source holding an entry of each of two classes
C18_Witness ==
    /\ pc = "rp_dex"
    /\ Len(apk.entries) = 2
    /\ Classify(apk.entries[1].path) = "signature-metadata"
    /\ Classify(apk.entries[2].path) = "ordinary"
    /\ Len(buffer) = 1

----------------------------------------------------------------------------
(* Properties of run_instrumentation *)

\* C19: run_instrumentation returns normally if and only if every stage
\* succeeded: a run that has ended returned exactly when all stages completed
\* and none failed, a run in which a stage failed ends raised, and once a
\* stage has failed no other stage is started.
C19_ReturnsIffEveryStageSucceeded ==
    /\ Terminated =>
          /\ pc = "returned" <=> completed = StageOrder
          /\ pc = "returned" <=> failedAt = "none"
    /\ failedAt # "none" =>
          /\ pc \in {"raised", "al_finally"}
          /\ failedAt \notin Range(completed)
          /\ failedAt \in Stages => started[Len(started)] = failedAt

\* the last stage failed, on its second copy, and the run ended raised
C19_Witness ==
    /\ pc = "raised"
    /\ failedAt = "copy_outputs"
    /\ fault = "co_jar"
    /\ Len(completed) = Len(StageOrder) - 1

----------------------------------------------------------------------------
(* Properties of a failure of repackage_apk *)

\* repackage_apk is building the new archive in memory
Constructing == pc \in {"rp_dex", "rp_props", "rp_open_w"}

\* repackage_apk failed while building: reading the source, the dex directory
\* or the properties file failed, or one of the latter two is absent
FailedConstructing ==
    /\ failedAt = "repackage_apk"
    /\ \/ fault \in {"rp_read", "rp_dex_read", "rp_props_read"}
       \/ ~dexDir.exists
       \/ "jacoco-agent.properties" \notin present

\* C20: while the new archive is being built, and after a failure of
\* repackage_apk that happened while it was being built, the file at
\* target_apk_path is the working copy as it was: the write begins only when
\* the archive is complete, its last entry being the properties entry.
C20_ConstructionFailureLeavesTarget ==
    /\ (Constructing \/ FailedConstructing) => target = apk
    /\ pc = "rp_open_w" =>
          /\ buffer # <<>>
          /\ buffer[Len(buffer)].path = "jacoco-agent.properties"

\* the properties file is absent and repackage_apk failed after it had copied
\* source entries and dex files
C20_Witness ==
    /\ pc = "raised"
    /\ failedAt = "repackage_apk"
    /\ "jacoco-agent.properties" \notin present
    /\ fault = "none"
    /\ Len(buffer) > 1
    /\ target.kind = "zip"

----------------------------------------------------------------------------
(* Properties of the input package *)

\* the steps of copy_outputs, the stage after signing
InCopyOutputs == pc \in {"copy_outputs", "co_jar"}

\* C21: no step of the run up to and including sign_apk changes the file at
\* apk_path: the writes of repackage_apk, apktool_build, align_apk and
\* sign_apk go to the working copy, so whether the stages succeed or fail the
\* input package keeps the content it had when the run started.
C21_InputPackageNeverModified == [][~InCopyOutputs => apk' = apk]_vars

\* the working copy was repackaged, rebuilt, aligned and signed, and differs
\* from the input package it was copied from
C21_Witness ==
    /\ "sign_apk" \in Range(completed)
    /\ apk.kind = "zip"
    /\ "signed" \in target.marks
    /\ target # apk
    /\ target.entries # apk.entries

====
